---- MODULE Spec2Model ----
(***************************************************************************)
(* Model of src/src/lib.rs: the State struct (size, config, color,         *)
(* current_pipeline), its methods resize / input / render, and the event   *)
(* closure passed to event_loop.run.                                        *)
(*                                                                         *)
(* One action per kind of event the closure can be called with.  Every     *)
(* action runs the whole closure (run_closure) on the event and on the     *)
(* outcomes the environment decides (the result of get_current_texture,    *)
(* the result of the stdout flush).                                        *)
(*                                                                         *)
(* Numbers: cursor coordinates and the quotients position / size are exact *)
(* rationals <<numerator, denominator>> in lowest terms; the rounding of   *)
(* f64 is not modelled.  size.width and size.height are positive after     *)
(* State::new because surface.configure (line 161) panics on a zero        *)
(* extent, and resize() never stores a zero extent.                        *)
(***************************************************************************)
EXTENDS Integers, Sequences, FiniteSets, TLC

\* ---------------------------------------------------------------- bounds
\* largest window width and height the environment reports
MaxWidth == 2
MaxHeight == 2
\* largest cursor coordinates the environment reports
MaxX == 1
MaxY == 1

\* ------------------------------------------------------------- rationals
Abs(n) == IF n < 0 THEN 0 - n ELSE n

RECURSIVE GCD(_, _)
GCD(a, b) == IF b = 0 THEN a ELSE GCD(b, a % b)

\* n / d for d > 0, in lowest terms
Rat(n, d) ==
    LET g == GCD(Abs(n), d)
    IN  IF n < 0 THEN <<0 - (Abs(n) \div g), d \div g>>
                 ELSE <<n \div g, d \div g>>

RatSub(a, b) == Rat(a[1] * b[2] - b[1] * a[2], a[2] * b[2])

One == Rat(1, 1)

\* (v as f64 * scale_factor) as u32 : the product truncated toward zero
\* (all operands are non-negative here)
ScaleToU32(v, sf) == (v * sf[1]) \div sf[2]

\* ------------------------------------------------------------ environment
WindowId == "main"
WindowIds == {"main", "other"}

PhysicalSize(w, h) == [width |-> w, height |-> h]

\* the sizes a Resized event may carry, and the sizes State::new may start with
Sizes == {PhysicalSize(w, h) : w \in 0..MaxWidth, h \in 0..MaxHeight}
InitSizes == {PhysicalSize(w, h) : w \in 1..MaxWidth, h \in 1..MaxHeight}
\* the cursor positions a CursorMoved event may carry: the corners of the
\* rectangle from (0, 0) to (MaxX, MaxY)
Positions == {[x |-> x, y |-> y] : x \in {0, MaxX}, y \in {0, MaxY}}
ScaleFactors == {<<1, 2>>, <<1, 1>>, <<2, 1>>}
Keys == {"Space", "Escape", "Character"}
ElementStates == {"Pressed", "Released"}
SurfaceErrors == {"Lost", "Outdated", "Timeout", "OutOfMemory"}
RenderResults == {"Ok"} \cup SurfaceErrors
FlushResults == {"Ok", "Err"}

Event(kind, window, arg) == [kind |-> kind, window |-> window, arg |-> arg]

\* the kinds of WindowEvent the model tells apart; Focused stands for every
\* WindowEvent that no arm names
WindowEventKinds ==
    {"MouseInput", "CursorMoved", "Resized", "ScaleFactorChanged", "RedrawRequested",
     "KeyboardInput", "CloseRequested", "Focused"}

\* Event::WindowEvent values for window w carrying the given payloads
EventsOf(w, positions, sizes, factors) ==
    {Event("MouseInput", w, <<>>)}
        \cup {Event("CursorMoved", w, <<p>>) : p \in positions}
        \cup {Event("Resized", w, <<s>>) : s \in sizes}
        \cup {Event("ScaleFactorChanged", w, <<f>>) : f \in factors}
        \cup {Event("RedrawRequested", w, <<>>)}
        \cup {Event("KeyboardInput", w, <<st, k>>) : st \in ElementStates, k \in Keys}
        \cup {Event("CloseRequested", w, <<>>)}
        \cup {Event("Focused", w, <<>>)}

\* the events for the program's window
WindowEvents == EventsOf(WindowId, Positions, Sizes, ScaleFactors)
\* the events for another window: every kind, one payload each
ForeignEvents ==
    EventsOf("other", {[x |-> MaxX, y |-> 0]}, {PhysicalSize(MaxWidth, 1)}, {<<2, 1>>})
\* an Event that is not Event::WindowEvent (AboutToWait, NewEvents, ...)
NonWindowEvents == {Event("AboutToWait", "none", <<>>)}

OfKind(kind) == {e \in WindowEvents : e.kind = kind}

MouseInputEvents == OfKind("MouseInput")
CursorMovedEvents == OfKind("CursorMoved")
ResizedEvents == OfKind("Resized")
ScaleFactorEvents == OfKind("ScaleFactorChanged")
RedrawEvents == OfKind("RedrawRequested")
KeyboardEvents == OfKind("KeyboardInput")
CloseEvents == OfKind("CloseRequested")
FocusedEvents == OfKind("Focused")

\* ------------------------------------------------------------------ state
VARIABLES
    size,              \* State.size
    config,            \* State.config (width and height; the rest never changes)
    color,             \* State.color
    current_pipeline,  \* State.current_pipeline (u8)
    redraw_requested,  \* the window has a redraw pending (request_redraw)
    exiting,           \* target.exit() was called
    moved,             \* history: <<>> or <<[position, size]>> of the latest CursorMoved handled
    last               \* history: the latest closure call: its event, current_pipeline
                       \* before it, and what it did

vars == <<size, config, color, current_pipeline, redraw_requested, exiting, moved, last>>

Color(r, g, b, a) == [r |-> r, g |-> g, b |-> b, a |-> a]

\* lines 174-179
InitColor == Color(Rat(1, 10), Rat(2, 10), Rat(3, 10), One)

\* what one call of the closure did, before it has done anything
NoEffects ==
    [consumed |-> FALSE, arm |-> "none", configured |-> <<>>, render |-> "none",
     pass |-> <<>>, submitted |-> FALSE, presented |-> FALSE, flush |-> "none",
     redraw_called |-> FALSE, exit_called |-> FALSE]

\* the State struct together with the effects of the running closure call
Machine(sz, cf, col, cp) ==
    [size |-> sz, config |-> cf, color |-> col, current_pipeline |-> cp, fx |-> NoEffects]

\* ------------------------------------------------- calls into the libraries
\* Window::request_redraw
request_redraw(m) == [m EXCEPT !.fx.redraw_called = TRUE]

\* EventLoopWindowTarget::exit
target_exit(m) == [m EXCEPT !.fx.exit_called = TRUE]

\* Surface::configure(&device, &config)
surface_configure(m) == [m EXCEPT !.fx.configured = Append(@, m.config)]

\* ---------------------------------------------------------- State methods
\* State::resize, lines 192-199
resize(m, new_size) ==
    IF (new_size.width > 0 /\ new_size.height > 0) /\ (new_size # m.size)
    THEN surface_configure(
             [m EXCEPT !.size = new_size,
                       !.config = [width |-> new_size.width, height |-> new_size.height]])
    ELSE m

cursor_color_by_width(position, sz) ==
    Color(Rat(position.x, sz.width),
          RatSub(One, Rat(position.x, sz.width)),
          Rat(position.y, sz.width),
          One)

\* the color literal of lines 205-210
cursor_color(position, sz) ==
    Color(Rat(position.x, sz.width),
          RatSub(One, Rat(position.x, sz.width)),
          Rat(position.y, sz.height),
          One)

input_no_redraw(m, event) ==
    CASE event.kind = "MouseInput" -> [m EXCEPT !.fx.consumed = TRUE, !.fx.arm = "input"]
      [] event.kind = "CursorMoved" ->
            [m EXCEPT !.color = cursor_color(event.arg[1], m.size),
                      !.fx.consumed = TRUE, !.fx.arm = "input"]
      [] OTHER -> [m EXCEPT !.fx.consumed = FALSE]

\* State::input, lines 201-216; fx.consumed is the returned bool
input(m, event) ==
    CASE event.kind = "MouseInput" -> [m EXCEPT !.fx.consumed = TRUE, !.fx.arm = "input"]
      [] event.kind = "CursorMoved" ->
            [request_redraw([m EXCEPT !.color = cursor_color(event.arg[1], m.size)])
                EXCEPT !.fx.consumed = TRUE, !.fx.arm = "input"]
      [] OTHER -> [m EXCEPT !.fx.consumed = FALSE]

\* the match of lines 259-263: the arm taken and the pipeline object it yields
select_pipeline(cp) ==
    CASE cp = 1 -> [arm |-> "1", pipeline |-> "pipeline"]
      [] cp = 2 -> [arm |-> "2", pipeline |-> "pipeline2"]
      [] OTHER  -> [arm |-> "_", pipeline |-> "pipeline"]

\* State::render, lines 222-275; texture is the outcome of get_current_texture
render(m, texture) ==
    IF texture # "Ok"
    THEN [m EXCEPT !.fx.render = texture]
    ELSE [m EXCEPT !.fx.render = "Ok",
                   !.fx.pass = <<[clear |-> m.color,
                                  arm |-> select_pipeline(m.current_pipeline).arm,
                                  pipeline |-> select_pipeline(m.current_pipeline).pipeline,
                                  draw |-> <<3, 1>>]>>,
                   !.fx.submitted = TRUE,
                   !.fx.presented = TRUE]

\* ------------------------------------------------------------ the closure
render_result_exit_on_error(m) ==
    CASE m.fx.render = "Ok" -> m
      [] m.fx.render = "Lost" -> resize(m, m.size)
      [] OTHER -> target_exit(m)

\* lines 306-311: the match on the result of render()
render_result(m) ==
    CASE m.fx.render = "Ok" -> m
      [] m.fx.render = "Lost" -> resize(m, m.size)
      [] m.fx.render = "OutOfMemory" -> target_exit(m)
      [] OTHER -> m

switch_pipeline_stuck(cp) == IF cp = 1 THEN 2 ELSE 2

switch_pipeline_wrap(cp) == (cp + 1) % 3

\* lines 324-328
switch_pipeline(cp) == IF cp = 1 THEN 2 ELSE 1

key_pressed_any(m, key) ==
    request_redraw([m EXCEPT !.current_pipeline = switch_pipeline(@)])

\* lines 322-338: the match on logical_key of a Pressed key
key_pressed(m, key) ==
    IF key = "Space"
    THEN request_redraw([m EXCEPT !.current_pipeline = switch_pipeline(@)])
    ELSE m

flush_stdout_unchecked(m, flush) == [m EXCEPT !.fx.flush = flush]

\* lines 340-343
flush_stdout(m, flush) ==
    IF flush = "Ok" THEN [m EXCEPT !.fx.flush = flush]
                    ELSE target_exit([m EXCEPT !.fx.flush = flush])

\* the second pattern of lines 345-354
is_escape_released(event) ==
    event.kind = "KeyboardInput" /\ event.arg[2] = "Escape" /\ event.arg[1] = "Released"

\* lines 292-356: the match on the events input() did not consume
match_event(m, event, env) ==
    CASE event.kind = "Resized" ->
            [request_redraw(resize(m, event.arg[1])) EXCEPT !.fx.arm = "Resized"]
      [] event.kind = "ScaleFactorChanged" ->
            [request_redraw(
                 resize(m, PhysicalSize(ScaleToU32(m.size.width, event.arg[1]),
                                        ScaleToU32(m.size.height, event.arg[1]))))
                EXCEPT !.fx.arm = "ScaleFactorChanged"]
      [] event.kind = "RedrawRequested" ->
            [render_result(render(m, env.render)) EXCEPT !.fx.arm = "RedrawRequested"]
      [] event.kind = "KeyboardInput" /\ event.arg[1] = "Pressed" ->
            [flush_stdout(key_pressed(m, event.arg[2]), env.flush)
                EXCEPT !.fx.arm = "KeyPressed"]
      [] event.kind = "CloseRequested" \/ is_escape_released(event) ->
            [target_exit(m) EXCEPT !.fx.arm = "Exit"]
      [] OTHER -> [m EXCEPT !.fx.arm = "_"]

\* lines 286-361: the closure given to event_loop.run
run_closure(m, event, env) ==
    IF event.kind \in WindowEventKinds /\ event.window = WindowId
    THEN LET mi == input(m, event)
         IN  IF ~mi.fx.consumed THEN match_event(mi, event, env) ELSE mi
    ELSE [m EXCEPT !.fx.arm = "ignored"]

\* ---------------------------------------------------------------- actions
TypeOK ==
    /\ size \in InitSizes
    /\ config \in InitSizes
    /\ current_pipeline \in 0..255
    /\ redraw_requested \in BOOLEAN
    /\ exiting \in BOOLEAN

\* State::new, lines 99-186, with the size the window reports
Init ==
    /\ size \in InitSizes
    /\ config = [width |-> size.width, height |-> size.height]
    /\ color = InitColor
    /\ current_pipeline = 1
    /\ redraw_requested = FALSE
    /\ exiting = FALSE
    /\ moved = <<>>
    /\ last = [event |-> Event("Init", "none", <<>>),
               before |-> 1,
               fx |-> [NoEffects EXCEPT !.configured = <<config>>]]

\* the extents the model follows; a ScaleFactorChanged that would scale the
\* window beyond them is not delivered
InBounds(sz) == sz.width <= MaxWidth /\ sz.height <= MaxHeight

\* event_loop.run calls the closure with event; env holds the outcomes of the
\* fallible calls the closure may make
Dispatch(event, env) ==
    /\ ~exiting
    /\ \E m \in {run_closure(Machine(size, config, color, current_pipeline), event, env)},
          own \in {event.kind \in WindowEventKinds /\ event.window = WindowId} :
        /\ InBounds(m.size)
        /\ size' = m.size
        /\ config' = m.config
        /\ color' = m.color
        /\ current_pipeline' = m.current_pipeline
        /\ redraw_requested' =
              (m.fx.redraw_called
                 \/ (redraw_requested /\ ~(own /\ event.kind = "RedrawRequested")))
        /\ exiting' = m.fx.exit_called
        /\ moved' = IF own /\ event.kind = "CursorMoved"
                    THEN <<[position |-> event.arg[1], size |-> size]>>
                    ELSE moved
        /\ last' = [event |-> event,
                    before |-> current_pipeline,
                    fx |-> [m.fx EXCEPT !.render = IF own /\ event.kind = "RedrawRequested"
                                                   THEN env.render ELSE "none"]]

\* the outcomes given to a closure call that makes no fallible call
NoEnv == [render |-> "Ok", flush |-> "Ok"]

MouseInput ==
    \E e \in MouseInputEvents : e.window = WindowId /\ Dispatch(e, NoEnv)

CursorMoved ==
    \E e \in CursorMovedEvents : e.window = WindowId /\ Dispatch(e, NoEnv)

Resized ==
    \E e \in ResizedEvents : e.window = WindowId /\ Dispatch(e, NoEnv)

ScaleFactorChanged ==
    \E e \in ScaleFactorEvents : e.window = WindowId /\ Dispatch(e, NoEnv)

RedrawOk ==
    \E e \in RedrawEvents :
        e.window = WindowId /\ Dispatch(e, [render |-> "Ok", flush |-> "Ok"])

RedrawFailed ==
    \E e \in RedrawEvents, r \in SurfaceErrors :
        e.window = WindowId /\ Dispatch(e, [render |-> r, flush |-> "Ok"])

KeyPressed ==
    \E e \in KeyboardEvents, f \in FlushResults :
        e.arg[1] = "Pressed" /\ Dispatch(e, [render |-> "Ok", flush |-> f])

KeyReleased ==
    \E e \in KeyboardEvents : e.arg[1] = "Released" /\ Dispatch(e, NoEnv)

CloseRequested ==
    \E e \in CloseEvents : e.window = WindowId /\ Dispatch(e, NoEnv)

OtherWindowEvent ==
    \E e \in FocusedEvents : e.window = WindowId /\ Dispatch(e, NoEnv)

\* a WindowEvent of any kind for a window that is not the program's
ForeignWindowEvent ==
    \E e \in ForeignEvents : e.window # WindowId /\ Dispatch(e, NoEnv)

NonWindowEvent ==
    \E e \in NonWindowEvents : e.kind \notin WindowEventKinds /\ Dispatch(e, NoEnv)

Next ==
    \/ MouseInput
    \/ CursorMoved
    \/ Resized
    \/ ScaleFactorChanged
    \/ RedrawOk
    \/ RedrawFailed
    \/ KeyPressed
    \/ KeyReleased
    \/ CloseRequested
    \/ OtherWindowEvent
    \/ ForeignWindowEvent
    \/ NonWindowEvent

Spec == Init /\ [][Next]_vars

\* the hypotheses of the redraw guarantee: get_current_texture succeeds, and a
\* redraw the program requested is eventually delivered as RedrawRequested
DeliverRedraw == redraw_requested /\ RedrawOk

LiveNext ==
    \/ MouseInput
    \/ CursorMoved
    \/ Resized
    \/ ScaleFactorChanged
    \/ RedrawOk
    \/ KeyPressed
    \/ KeyReleased
    \/ CloseRequested
    \/ OtherWindowEvent
    \/ ForeignWindowEvent
    \/ NonWindowEvent

LiveSpec == Init /\ [][LiveNext]_vars /\ WF_vars(DeliverRedraw)

\* ------------------------------------------------------------- properties
\* the latest closure call was for an event of this kind for the program's window
Handled(kind) == last.event.kind = kind /\ last.event.window = WindowId
HandledNext(kind) == last'.event.kind = kind /\ last'.event.window = WindowId

SpacePressed == Handled("KeyboardInput") /\ last.event.arg = <<"Pressed", "Space">>
SpacePressedNext == HandledNext("KeyboardInput") /\ last'.event.arg = <<"Pressed", "Space">>

\* the latest closure call ran render() and a render pass was recorded
Rendered == Handled("RedrawRequested") /\ last.fx.pass # <<>>

PipelineOf(cp) == IF cp = 1 THEN "pipeline" ELSE "pipeline2"

\* C1: a Pressed Space for the program's window turns current_pipeline 1 into 2
\* and 2 into 1, two consecutive Space presses restore the value before the
\* first, and render() sets `pipeline` when current_pipeline is 1 and
\* `pipeline2` when it is 2.
SpaceSwitchesPipeline ==
    /\ [][SpacePressedNext =>
            /\ current_pipeline = 1 => current_pipeline' = 2
            /\ current_pipeline = 2 => current_pipeline' = 1
            /\ SpacePressed => current_pipeline' = last.before]_vars
    /\ [](Rendered =>
            /\ current_pipeline = 1 => last.fx.pass[1].pipeline = "pipeline"
            /\ current_pipeline = 2 => last.fx.pass[1].pipeline = "pipeline2")

SpaceSwitchesPipelineWitness ==
    SpacePressed /\ last.before = 2 /\ current_pipeline = 1

\* C2: current_pipeline is 1 or 2 in every reachable state, and render() never
\* selects the pipeline through the fallback arm.
PipelineIsOneOrTwo ==
    /\ current_pipeline \in {1, 2}
    /\ Rendered => last.fx.pass[1].arm \in {"1", "2"}

PipelineIsOneOrTwoWitness ==
    Rendered /\ current_pipeline = 2 /\ last.fx.pass[1].arm = "2"

\* r = x / width, g = 1 - x / width, b = y / height, a = 1
ClearColorAt(position, sz) ==
    [r |-> Rat(position.x, sz.width),
     g |-> RatSub(<<1, 1>>, Rat(position.x, sz.width)),
     b |-> Rat(position.y, sz.height),
     a |-> <<1, 1>>]

\* C3: CursorMoved at (x, y) sets color to (x / width, 1 - x / width,
\* y / height, 1) with the size stored at that moment; render() clears with the
\* color of the latest CursorMoved, or with (0.1, 0.2, 0.3, 1.0) when there was
\* none; a resize does not recompute the color.
ClearColorFollowsCursor ==
    /\ [](Handled("CursorMoved") => color = ClearColorAt(last.event.arg[1], size))
    /\ [](Rendered =>
            last.fx.pass[1].clear =
                IF moved = <<>>
                THEN [r |-> <<1, 10>>, g |-> <<1, 5>>, b |-> <<3, 10>>, a |-> <<1, 1>>]
                ELSE ClearColorAt(moved[1].position, moved[1].size))
    /\ [][(HandledNext("Resized") \/ HandledNext("ScaleFactorChanged")) => color' = color]_vars

ClearColorFollowsCursorWitness ==
    /\ Rendered
    /\ moved # <<>>
    /\ moved[1].size.width # size.width
    /\ moved[1].size.height # size.height
    /\ moved[1].position = [x |-> MaxX, y |-> MaxY]

\* C4: current_pipeline changes only on a Pressed Space and color only on a
\* CursorMoved, both for the program's window; MouseInput and CursorMoved are
\* consumed by input() and reach no arm of the closure's match.
OnlySpaceAndCursorChangeState ==
    /\ [][/\ current_pipeline' # current_pipeline => SpacePressedNext
          /\ color' # color => HandledNext("CursorMoved")]_vars
    /\ [](Handled("MouseInput") \/ Handled("CursorMoved") =>
            /\ last.fx.consumed
            /\ last.fx.arm = "input"
            /\ last.fx.configured = <<>>
            /\ last.fx.render = "none"
            /\ last.fx.flush = "none"
            /\ ~last.fx.exit_called)

OnlySpaceAndCursorChangeStateWitness ==
    /\ last.event.kind = "KeyboardInput"
    /\ last.event.arg = <<"Pressed", "Character">>
    /\ last.event.window = WindowId
    /\ current_pipeline = 2
    /\ moved # <<>>

\* C5: when render() fails with SurfaceError::Lost, the RedrawRequested handler
\* calls surface.configure with the current config.
LostReconfiguresSurface ==
    (Handled("RedrawRequested") /\ last.fx.render = "Lost") => last.fx.configured = <<config>>

\* C6: exit is requested exactly on CloseRequested, on Escape Released, on a
\* render() failure with OutOfMemory, and on a failed stdout flush after a
\* Pressed key; a Pressed Escape whose flush succeeds does not request it.
ExitExactlyWhen ==
    /\ exiting <=> last.fx.exit_called
    /\ last.fx.exit_called <=>
          \/ Handled("CloseRequested")
          \/ Handled("KeyboardInput") /\ last.event.arg = <<"Released", "Escape">>
          \/ Handled("RedrawRequested") /\ last.fx.render = "OutOfMemory"
          \/ Handled("KeyboardInput") /\ last.event.arg[1] = "Pressed" /\ last.fx.flush = "Err"
    /\ (Handled("KeyboardInput") /\ last.event.arg[1] = "Pressed") => last.fx.flush # "none"

ExitExactlyWhenWitness ==
    /\ Handled("KeyboardInput")
    /\ last.event.arg = <<"Pressed", "Escape">>
    /\ last.fx.flush = "Ok"
    /\ ~exiting

\* the latest closure call was one that may change what is drawn
ChangedWhatIsDrawn ==
    \/ SpacePressed
    \/ Handled("CursorMoved")
    \/ Handled("Resized")
    \/ Handled("ScaleFactorChanged")

\* the latest closure call presented a frame drawn with the current color and
\* the current pipeline selection
FrameIsCurrent ==
    /\ Rendered
    /\ last.fx.presented
    /\ last.fx.pass[1].clear = color
    /\ last.fx.pass[1].pipeline = PipelineOf(current_pipeline)

\* C7: a Pressed Space, a CursorMoved, a Resized and a ScaleFactorChanged each
\* call request_redraw, also when resize() rejected the size; and when
\* requested redraws are delivered and render() succeeds, each such event is
\* followed by a frame with the current color and pipeline, unless the loop
\* exits.
RedrawFollowsChange ==
    /\ [](ChangedWhatIsDrawn => last.fx.redraw_called /\ (redraw_requested \/ exiting))
    /\ (ChangedWhatIsDrawn ~> (FrameIsCurrent \/ exiting))

RedrawFollowsChangeWitness ==
    /\ FrameIsCurrent
    /\ current_pipeline = 2
    /\ moved # <<>>
    /\ size # moved[1].size
    /\ ~redraw_requested

\* the latest closure call ran render() and it failed with an error other
\* than OutOfMemory
RenderFailedSoftly ==
    Handled("RedrawRequested") /\ last.fx.render \in {"Lost", "Outdated", "Timeout"}
RenderFailedSoftlyNext ==
    HandledNext("RedrawRequested") /\ last'.fx.render \in {"Lost", "Outdated", "Timeout"}

\* C8: a render() failure other than OutOfMemory does not request exit, leaves
\* size, config, color and current_pipeline unchanged, lets the loop go on, and
\* submits and presents nothing; OutOfMemory requests exit.
SoftRenderFailureIsHarmless ==
    /\ [][RenderFailedSoftlyNext => UNCHANGED <<size, config, color, current_pipeline>>]_vars
    /\ [](RenderFailedSoftly =>
            /\ ~last.fx.exit_called
            /\ ~exiting
            /\ ENABLED RedrawOk
            /\ last.fx.pass = <<>>
            /\ ~last.fx.submitted
            /\ ~last.fx.presented)
    /\ []((Handled("RedrawRequested") /\ last.fx.render # "Ok") =>
            (last.fx.exit_called <=> last.fx.render = "OutOfMemory"))

SoftRenderFailureIsHarmlessWitness ==
    /\ RenderFailedSoftly
    /\ last.fx.render = "Timeout"
    /\ current_pipeline = 2
    /\ moved # <<>>

====
